---- MODULE Spec2Model ----
(***************************************************************************)
(* User CRUD service: HTTP handlers, command/query handlers, PostgreSQL    *)
(* repository (table users, email UNIQUE) and the Redis look-aside cache   *)
(* with its detached (go ...) population and invalidation tasks.           *)
(*                                                                         *)
(* Strings are sequences of one-character strings, so that TrimSpace and   *)
(* len() are computed and not assumed.  Every database round trip and      *)
(* every cache round trip is one atomic step of the request that makes     *)
(* it; what a handler does locally between two round trips belongs to the  *)
(* step of the round trip that precedes it.                                *)
(***************************************************************************)
EXTENDS Integers, Sequences, FiniteSets, TLC

VARIABLES
    users,      \* table users: id -> row, or NoUser
    nextId,     \* the SERIAL sequence behind users.id
    cache,      \* Redis: key -> JSON document, or NoEntry
    tasks,      \* detached goroutines that have not run yet
    req,        \* per worker: the request it is serving and its locals
    rid,        \* number of requests accepted so far
    now,        \* the clock read by time.Now()
    dbUp,       \* PostgreSQL answers
    redisUp,    \* Redis answers
    hist        \* history: what completed writes overwrote, what was created

vars == <<users, nextId, cache, tasks, req, rid, now, dbUp, redisUp, hist>>

-----------------------------------------------------------------------------
(* Bounds *)

MaxUsers == 2       \* identifiers the sequence may hand out
MaxReqs == 4        \* requests accepted in one behaviour

Ids == 1..MaxUsers
Workers == {1, 2}

-----------------------------------------------------------------------------
(* Strings *)

Empty == <<>>
Space == " "

RECURSIVE TrimLeft(_)
TrimLeft(s) == IF s # <<>> /\ Head(s) = Space THEN TrimLeft(Tail(s)) ELSE s

RECURSIVE TrimRight(_)
TrimRight(s) ==
    IF s # <<>> /\ s[Len(s)] = Space THEN TrimRight(SubSeq(s, 1, Len(s) - 1)) ELSE s

\* strings.TrimSpace
TrimSpace(s) == TrimRight(TrimLeft(s))

Count(s, c) == Cardinality({i \in 1..Len(s) : s[i] = c})

NameA == <<"a">>
NameB == <<"b">>
NamePadded == <<" ", "a", " ">>
NameBlank == <<" ">>

EmailX == <<"x", "@", "d">>
EmailY == <<"y", "@", "d">>
EmailPadded == <<" ", "x", "@", "d">>
EmailBad == <<"x">>

PwA == <<"p", "a", "s", "s", "w", "o", "r", "d">>
PwB == <<"n", "e", "w", "p", "a", "s", "s", "1">>
PwShort == <<"s", "h", "o", "r", "t">>
PwPadShort == <<" ", "s", "e", "v", "e", "n", "c", "h">>
PwPadded == <<" ", "p", "a", "s", "s", "w", "o", "r", "d">>

\* the letters in collation order; Ord is 0 for any other character
Letters ==
    <<"a", "b", "c", "d", "e", "f", "g", "h", "i", "j", "k", "l", "m", "n", "o", "p", "q",
      "r", "s", "t", "u", "v", "w", "x", "y", "z">>

Ord(c) == IF \E i \in 1..Len(Letters) : Letters[i] = c
              THEN CHOOSE i \in 1..Len(Letters) : Letters[i] = c
              ELSE 0

\* s sorts before t, character by character
RECURSIVE StrLess(_, _)
StrLess(s, t) ==
    IF t = <<>> THEN FALSE
    ELSE IF s = <<>> THEN TRUE
    ELSE IF Ord(Head(s)) # Ord(Head(t)) THEN Ord(Head(s)) < Ord(Head(t))
    ELSE StrLess(Tail(s), Tail(t))

\* SQL LIKE on lower-case text: % is any run of characters, _ any one
RECURSIVE Like(_, _)
Like(s, pat) ==
    IF pat = <<>> THEN s = <<>>
    ELSE IF Head(pat) = "%"
        THEN Like(s, Tail(pat)) \/ (s # <<>> /\ Like(Tail(s), pat))
    ELSE /\ s # <<>>
         /\ (Head(pat) = "_" \/ Head(pat) = Head(s))
         /\ Like(Tail(s), Tail(pat))

-----------------------------------------------------------------------------
(* Go int (64 bits, two's complement) as four 16-bit limbs, low limb first *)

Base == 65536

\* the int64 of a small integer
I64(n) ==
    IF n >= 0 THEN <<n % Base, (n \div Base) % Base, 0, 0>>
    ELSE LET m == (-n) - 1
         IN  <<(Base - 1) - (m % Base), (Base - 1) - ((m \div Base) % Base),
               Base - 1, Base - 1>>

MaxInt64 == <<Base - 1, Base - 1, Base - 1, (Base \div 2) - 1>>
MinInt64 == <<0, 0, 0, Base \div 2>>

IsNeg(x) == x[4] >= Base \div 2

\* x is within +-2^30 and can be read back as a small integer
Fits(x) ==
    \/ x[3] = 0 /\ x[4] = 0 /\ x[2] < Base \div 4
    \/ x[3] = Base - 1 /\ x[4] = Base - 1 /\ x[2] >= 3 * (Base \div 4)

ToInt(x) ==
    IF ~IsNeg(x) THEN x[1] + Base * x[2]
    ELSE -(((Base - 1) - x[1]) + Base * ((Base - 1) - x[2])) - 1

\* x < n and x > n for a small n
LessThan(x, n) == IF Fits(x) THEN ToInt(x) < n ELSE IsNeg(x)
GreaterThan(x, n) == IF Fits(x) THEN ToInt(x) > n ELSE ~IsNeg(x)

\* x - 1, wrapping
SubOne(x) ==
    IF x[1] > 0 THEN <<x[1] - 1, x[2], x[3], x[4]>>
    ELSE IF x[2] > 0 THEN <<Base - 1, x[2] - 1, x[3], x[4]>>
    ELSE IF x[3] > 0 THEN <<Base - 1, Base - 1, x[3] - 1, x[4]>>
    ELSE IF x[4] > 0 THEN <<Base - 1, Base - 1, Base - 1, x[4] - 1>>
    ELSE <<Base - 1, Base - 1, Base - 1, Base - 1>>

\* x * k for 0 <= k <= 100, wrapping at 64 bits
MulSmall(x, k) ==
    LET p1 == x[1] * k
        p2 == x[2] * k + (p1 \div Base)
        p3 == x[3] * k + (p2 \div Base)
        p4 == x[4] * k + (p3 \div Base)
    IN  <<p1 % Base, p2 % Base, p3 % Base, p4 % Base>>

-----------------------------------------------------------------------------
(* Domain entity *)

NoUser == [id |-> 0]
NoEntry == [id |-> 0]
NoErr == "nil"

ErrUserNotFound == "user not found"
ErrUserAlreadyExists == "user already exists"
ErrUniqueViolation == "duplicate key value violates unique constraint"
ErrDb == "database unavailable"
ErrRedis == "redis unavailable"

MinPasswordLen == 8
MinAge == 0
MaxAge == 150

\* bcrypt.GenerateFromPassword: an opaque one-way image of the plaintext
Hash(password) == <<"bcrypt", password>>

\* bcrypt.CompareHashAndPassword
CompareHashAndPassword(hash, password) == hash = Hash(password)

\* User.ComparePassword
ComparePassword(u, password) == CompareHashAndPassword(u.password_hash, password)

\* domain.NewUser: [err, user]
NewUser(name, email, password, age, t) ==
    LET n == TrimSpace(name)
        e == TrimSpace(email)
        p == TrimSpace(password)
    IN  IF n = Empty THEN [err |-> "name cannot be empty", user |-> NoUser]
        ELSE IF e = Empty THEN [err |-> "email cannot be empty", user |-> NoUser]
        ELSE IF p = Empty THEN [err |-> "password cannot be empty", user |-> NoUser]
        ELSE IF Len(p) < MinPasswordLen
            THEN [err |-> "password must be at least 8 characters", user |-> NoUser]
        ELSE IF age < MinAge \/ age > MaxAge
            THEN [err |-> "age must be between 0 and 150", user |-> NoUser]
        ELSE [err |-> NoErr,
              user |-> [id |-> 0, name |-> n, email |-> e, password_hash |-> Hash(p),
                        age |-> age, created_at |-> t, updated_at |-> t]]

\* mutant: the age is taken as given
UserUpdate_NoAgeCheck(u, name, email, age, t) ==
    IF name = Empty THEN [err |-> "name cannot be empty", user |-> u]
    ELSE IF email = Empty THEN [err |-> "email cannot be empty", user |-> u]
    ELSE [err |-> NoErr,
          user |-> [u EXCEPT !.name = name, !.email = email, !.age = age,
                             !.updated_at = t]]

\* User.Update: [err, user]
UserUpdate(u, name, email, age, t) ==
    IF name = Empty THEN [err |-> "name cannot be empty", user |-> u]
    ELSE IF email = Empty THEN [err |-> "email cannot be empty", user |-> u]
    ELSE IF age < MinAge \/ age > MaxAge
        THEN [err |-> "age must be between 0 and 150", user |-> u]
    ELSE [err |-> NoErr,
          user |-> [u EXCEPT !.name = name, !.email = email, !.age = age,
                             !.updated_at = t]]

\* mutant: the old password is not verified
UpdatePassword_NoOldCheck(u, oldPassword, newPassword, t) ==
    IF newPassword = Empty
        THEN [err |-> "new password cannot be empty", user |-> u]
    ELSE IF Len(newPassword) < MinPasswordLen
        THEN [err |-> "new password must be at least 8 characters", user |-> u]
    ELSE [err |-> NoErr,
          user |-> [u EXCEPT !.password_hash = Hash(newPassword), !.updated_at = t]]

\* User.UpdatePassword: [err, user]
UpdatePassword(u, oldPassword, newPassword, t) ==
    IF ~ComparePassword(u, oldPassword)
        THEN [err |-> "old password is incorrect", user |-> u]
    ELSE IF newPassword = Empty
        THEN [err |-> "new password cannot be empty", user |-> u]
    ELSE IF Len(newPassword) < MinPasswordLen
        THEN [err |-> "new password must be at least 8 characters", user |-> u]
    ELSE [err |-> NoErr,
          user |-> [u EXCEPT !.password_hash = Hash(newPassword), !.updated_at = t]]

\* the profile fields: name, email, age
Profile(u) == <<u.name, u.email, u.age>>

\* mutant: the view carries the stored hash along
ToPublicUser_WithHash(u) ==
    [id |-> u.id, name |-> u.name, email |-> u.email, age |-> u.age,
     created_at |-> u.created_at, updated_at |-> u.updated_at,
     password_hash |-> u.password_hash]

\* User.ToPublicUser
ToPublicUser(u) ==
    [id |-> u.id, name |-> u.name, email |-> u.email, age |-> u.age,
     created_at |-> u.created_at, updated_at |-> u.updated_at]

-----------------------------------------------------------------------------
(* Request binding (gin ShouldBindJSON with the commands' binding tags) *)

\* validator tag "email": one "@" with something on both sides, no blank
IsEmail(s) ==
    /\ Count(s, "@") = 1
    /\ Count(s, Space) = 0
    /\ s[1] # "@"
    /\ s[Len(s)] # "@"

\* CreateUserCommand: required / required,email / required,min=8 /
\* required,min=0,max=150 ("required" rejects the zero value of the type)
BindCreateUser(cmd) ==
    /\ cmd.name # Empty
    /\ cmd.email # Empty /\ IsEmail(cmd.email)
    /\ cmd.password # Empty /\ Len(cmd.password) >= 8
    /\ cmd.age # 0 /\ cmd.age >= 0 /\ cmd.age <= 150

\* UpdateUserCommand
BindUpdateUser(cmd) ==
    /\ cmd.name # Empty
    /\ cmd.email # Empty /\ IsEmail(cmd.email)
    /\ cmd.age # 0 /\ cmd.age >= 0 /\ cmd.age <= 150

\* ChangePasswordCommand
BindChangePassword(cmd) ==
    /\ cmd.old_password # Empty
    /\ cmd.new_password # Empty /\ Len(cmd.new_password) >= 8

-----------------------------------------------------------------------------
(* HTTP status mapping of the handlers' errors *)

\* mutant: the validation messages are not told apart from other errors
CreateUserStatus_No400(err) ==
    IF err = NoErr THEN 201
    ELSE IF err = ErrUserAlreadyExists THEN 409
    ELSE 500

CreateUserStatus(err) ==
    IF err = NoErr THEN 201
    ELSE IF err = ErrUserAlreadyExists THEN 409
    ELSE IF err \in {"password cannot be empty", "password must be at least 8 characters",
                     "name cannot be empty", "email cannot be empty"} THEN 400
    ELSE 500

GetUserStatus(err) ==
    IF err = NoErr THEN 200 ELSE IF err = ErrUserNotFound THEN 404 ELSE 500

UpdateUserStatus(err) ==
    IF err = NoErr THEN 200
    ELSE IF err = ErrUserNotFound THEN 404
    ELSE IF err = ErrUserAlreadyExists THEN 409
    ELSE 500

DeleteUserStatus(err) ==
    IF err = NoErr THEN 200 ELSE IF err = ErrUserNotFound THEN 404 ELSE 500

ChangePasswordStatus(err) ==
    IF err = NoErr THEN 200
    ELSE IF err = ErrUserNotFound THEN 404
    ELSE IF err = "old password is incorrect" THEN 401
    ELSE 500

-----------------------------------------------------------------------------
(* PostgresUserRepository over the table users *)

Stored == {i \in Ids : users[i] # NoUser}

EmailOwners(email) == {i \in Stored : users[i].email = email}

\* GetByID: [err, user]
GetByID(id) ==
    IF ~dbUp THEN [err |-> ErrDb, user |-> NoUser]
    ELSE IF id \in Stored THEN [err |-> NoErr, user |-> users[id]]
    ELSE [err |-> ErrUserNotFound, user |-> NoUser]

\* mutant: a by-email lookup that finds no row
GetByEmail_NeverFinds(email) ==
    IF ~dbUp THEN [err |-> ErrDb, user |-> NoUser]
    ELSE [err |-> ErrUserNotFound, user |-> NoUser]

\* GetByEmail: [err, user]
GetByEmail(email) ==
    IF ~dbUp THEN [err |-> ErrDb, user |-> NoUser]
    ELSE IF EmailOwners(email) # {}
        THEN [err |-> NoErr, user |-> users[CHOOSE i \in EmailOwners(email) : TRUE]]
    ELSE [err |-> ErrUserNotFound, user |-> NoUser]

\* Create: INSERT ... RETURNING id.  [err, user, table, seq]; the sequence
\* value is consumed even when the UNIQUE constraint rejects the row.
RepoCreate(u) ==
    IF ~dbUp THEN [err |-> ErrDb, user |-> u, table |-> users, seq |-> nextId]
    ELSE IF EmailOwners(u.email) # {}
        THEN [err |-> ErrUniqueViolation, user |-> u, table |-> users, seq |-> nextId + 1]
    ELSE LET row == [u EXCEPT !.id = nextId]
         IN  [err |-> NoErr, user |-> row,
              table |-> [users EXCEPT ![nextId] = row], seq |-> nextId + 1]

\* mutant: an update that inserts the row when no row has the identifier
RepoUpdate_Upsert(u) ==
    IF ~dbUp THEN [err |-> ErrDb, table |-> users]
    ELSE IF EmailOwners(u.email) \ {u.id} # {}
        THEN [err |-> ErrUniqueViolation, table |-> users]
    ELSE [err |-> NoErr, table |-> [users EXCEPT ![u.id] = u]]

\* Update: UPDATE users SET name, email, password_hash, age, updated_at
\* WHERE id.  [err, table]
RepoUpdate(u) ==
    IF ~dbUp THEN [err |-> ErrDb, table |-> users]
    ELSE IF u.id \notin Stored THEN [err |-> ErrUserNotFound, table |-> users]
    ELSE IF EmailOwners(u.email) \ {u.id} # {}
        THEN [err |-> ErrUniqueViolation, table |-> users]
    ELSE [err |-> NoErr,
          table |-> [users EXCEPT ![u.id] =
                        [@ EXCEPT !.name = u.name, !.email = u.email,
                                  !.password_hash = u.password_hash, !.age = u.age,
                                  !.updated_at = u.updated_at]]]

\* mutant: a delete that reports success and removes nothing
RepoDelete_KeepsRow(id) ==
    IF ~dbUp THEN [err |-> ErrDb, table |-> users]
    ELSE IF id \notin Stored THEN [err |-> ErrUserNotFound, table |-> users]
    ELSE [err |-> NoErr, table |-> users]

\* Delete: DELETE FROM users WHERE id.  [err, table]
RepoDelete(id) ==
    IF ~dbUp THEN [err |-> ErrDb, table |-> users]
    ELSE IF id \notin Stored THEN [err |-> ErrUserNotFound, table |-> users]
    ELSE [err |-> NoErr, table |-> [users EXCEPT ![id] = NoUser]]

-----------------------------------------------------------------------------
(* RedisCache *)

CacheTTL == 5

\* fmt.Sprintf("user:%d", id)
CacheKey(id) == <<"user", id>>

Keys == {CacheKey(i) : i \in Ids}

\* json.Marshal(user): PasswordHash carries the tag json:"-"
Marshal(u) ==
    [id |-> u.id, name |-> u.name, email |-> u.email, age |-> u.age,
     created_at |-> u.created_at, updated_at |-> u.updated_at]

\* json.Unmarshal into domain.User: the hash stays the zero value
Unmarshal(doc) ==
    [id |-> doc.id, name |-> doc.name, email |-> doc.email, password_hash |-> Empty,
     age |-> doc.age, created_at |-> doc.created_at, updated_at |-> doc.updated_at]

\* RedisCache.GetUser: [err, user]; redis.Nil is a miss, not an error
CacheGetUser(id) ==
    IF ~redisUp THEN [err |-> ErrRedis, user |-> NoUser]
    ELSE IF cache[CacheKey(id)] = NoEntry THEN [err |-> NoErr, user |-> NoUser]
    ELSE [err |-> NoErr, user |-> Unmarshal(cache[CacheKey(id)].doc)]

\* mutant: SET without an expiration (0 keeps the key for ever)
CacheSetUser_NoExpiry(u) ==
    IF ~redisUp THEN cache
    ELSE [cache EXCEPT ![CacheKey(u.id)] = [id |-> u.id, doc |-> Marshal(u), ttl |-> 0]]

\* mutant: the key is built from another identifier than the user's
CacheSetUser_OtherKey(u) ==
    IF ~redisUp THEN cache
    ELSE [cache EXCEPT ![CacheKey((u.id % MaxUsers) + 1)] =
              [id |-> u.id, doc |-> Marshal(u), ttl |-> CacheTTL]]

\* mutant: a write over an existing entry adds to its time-to-live
CacheSetUser_ExtendsTtl(u) ==
    IF ~redisUp THEN cache
    ELSE [cache EXCEPT ![CacheKey(u.id)] =
              [id |-> u.id, doc |-> Marshal(u),
               ttl |-> IF @ = NoEntry THEN CacheTTL ELSE @.ttl + CacheTTL]]

\* RedisCache.SetUser: the cache after SET key data EX ttl
CacheSetUser(u) ==
    IF ~redisUp THEN cache
    ELSE [cache EXCEPT ![CacheKey(u.id)] = [id |-> u.id, doc |-> Marshal(u), ttl |-> CacheTTL]]

\* mutant: DEL of a key built with another prefix
CacheDeleteUser_WrongKey(id) ==
    IF ~redisUp THEN cache
    ELSE [k \in Keys |-> IF k = <<"users", id>> THEN NoEntry ELSE cache[k]]

\* RedisCache.DeleteUser: the cache after DEL key
CacheDeleteUser(id) ==
    IF ~redisUp THEN cache
    ELSE [cache EXCEPT ![CacheKey(id)] = NoEntry]

-----------------------------------------------------------------------------
(* Requests *)

NoCmd == [name |-> Empty]
NoSeen == [retired |-> {}, clean |-> {}, deleted |-> FALSE, purged |-> FALSE]

Idle ==
    [pc |-> "idle", op |-> "none", n |-> 0, id |-> 0, cmd |-> NoCmd, user |-> NoUser,
     status |-> 0, err |-> NoErr, data |-> NoUser, via |-> "none", cacheErr |-> FALSE,
     issued |-> {}, seen |-> NoSeen, taken |-> FALSE, raced |-> FALSE]

\* a request is served by the first worker that is not busy
Busy(w) == req[w].pc \notin {"idle", "done"}
Free(w) == ~Busy(w) /\ (\A v \in Workers : v < w => Busy(v)) /\ rid < MaxReqs

\* a request as accepted by the HTTP handler
Accept(op, id, cmd) == [Idle EXCEPT !.op = op, !.n = rid + 1, !.id = id, !.cmd = cmd]

\* c.JSON(status, ...): the response is written and the locals are dropped
Respond(r, status, err, data) ==
    [r EXCEPT !.pc = "done", !.status = status, !.err = err, !.data = data,
              !.user = NoUser, !.n = 0]

\* go h.cache.SetUser(context.Background(), user)
GoSetUser(r, u) ==
    [kind |-> "set", by |-> r.op, n |-> r.n, id |-> u.id, user |-> u, pre |-> 0]

\* mutant: the invalidation goes to the key of another identifier
GoDeleteUser_OtherKey(r, id, pre) ==
    [kind |-> "del", by |-> r.op, n |-> r.n, id |-> (id % MaxUsers) + 1, user |-> NoUser,
     pre |-> pre]

\* go h.cache.DeleteUser(context.Background(), id)
GoDeleteUser(r, id, pre) ==
    [kind |-> "del", by |-> r.op, n |-> r.n, id |-> id, user |-> NoUser, pre |-> pre]

PendingCreates == Cardinality({w \in Workers : req[w].pc = "create_insert"})

-----------------------------------------------------------------------------
(* POST /users: Handler.CreateUser, CreateUserHandler.Handle *)

\* binding, the by-email pre-check and domain.NewUser
HttpCreateUser(w, cmd) ==
    /\ Free(w)
    /\ nextId + PendingCreates <= MaxUsers
    /\ rid' = rid + 1
    /\ LET r == [Accept("create", 0, cmd) EXCEPT !.taken = EmailOwners(cmd.email) # {}]
           existing == GetByEmail(cmd.email).user
           made == NewUser(cmd.name, cmd.email, cmd.password, cmd.age, now)
           racing == {v \in Workers \ {w} : /\ req[v].pc = "create_insert"
                                             /\ req[v].user.email = made.user.email}
       IN  IF ~BindCreateUser(cmd)
               THEN /\ req' = [req EXCEPT ![w] = Respond(r, 400, "binding", NoUser)]
                    /\ now' = now
           ELSE IF existing # NoUser
               THEN /\ req' = [req EXCEPT ![w] =
                            Respond(r, CreateUserStatus(ErrUserAlreadyExists),
                                    ErrUserAlreadyExists, NoUser)]
                    /\ now' = now
           ELSE IF made.err # NoErr
               THEN /\ req' = [req EXCEPT ![w] =
                            Respond(r, CreateUserStatus(made.err), made.err, NoUser)]
                    /\ now' = now
           ELSE /\ req' = [v \in Workers |->
                            IF v = w THEN [r EXCEPT !.pc = "create_insert",
                                                    !.user = made.user,
                                                    !.raced = racing # {}]
                            ELSE IF v \in racing THEN [req[v] EXCEPT !.raced = TRUE]
                            ELSE req[v]]
                /\ now' = now + 1
    /\ UNCHANGED <<users, nextId, cache, tasks, dbUp, redisUp, hist>>

\* repo.Create and the response
CreateInsert(w) ==
    /\ req[w].pc = "create_insert"
    /\ LET r == req[w]
           ins == RepoCreate(r.user)
       IN  /\ users' = ins.table
           /\ nextId' = ins.seq
           /\ IF ins.err # NoErr
                  THEN /\ req' = [req EXCEPT ![w] =
                               Respond(r, CreateUserStatus(ins.err), ins.err, NoUser)]
                       /\ hist' = hist
              ELSE /\ req' = [req EXCEPT ![w] =
                           Respond([r EXCEPT !.id = ins.user.id], CreateUserStatus(NoErr),
                                   NoErr, ToPublicUser(ins.user))]
                   /\ hist' = [hist EXCEPT !.created[ins.user.id] = r.cmd]
    /\ UNCHANGED <<cache, tasks, rid, now, dbUp, redisUp>>

-----------------------------------------------------------------------------
(* GET /users/:id: Handler.GetUser, GetUserHandler.Handle *)

Seen(id) ==
    [retired |-> hist.retired[id], clean |-> hist.clean[id],
     deleted |-> hist.deleted[id], purged |-> hist.purged[id]]

\* mutant: an error of the cache lookup is returned to the caller
HttpGetUser_FailOnCacheError(w, id) ==
    /\ Free(w)
    /\ rid' = rid + 1
    /\ LET r == [Accept("get", id, NoCmd) EXCEPT !.seen = Seen(id),
                                                 !.issued = {<<"get", CacheKey(id)>>}]
           got == CacheGetUser(id)
       IN  IF got.err # NoErr
               THEN req' = [req EXCEPT ![w] =
                        Respond([r EXCEPT !.via = "cache", !.cacheErr = TRUE],
                                GetUserStatus(got.err), got.err, NoUser)]
           ELSE IF got.user # NoUser
               THEN req' = [req EXCEPT ![w] =
                        Respond([r EXCEPT !.via = "cache"], GetUserStatus(NoErr), NoErr,
                                ToPublicUser(got.user))]
           ELSE req' = [req EXCEPT ![w] = [r EXCEPT !.pc = "get_store"]]
    /\ UNCHANGED <<users, nextId, cache, tasks, now, dbUp, redisUp, hist>>

\* the cache lookup: a hit answers, a miss or an error goes on to the store
HttpGetUser(w, id) ==
    /\ Free(w)
    /\ rid' = rid + 1
    /\ LET r == [Accept("get", id, NoCmd) EXCEPT !.seen = Seen(id),
                                                 !.issued = {<<"get", CacheKey(id)>>}]
           got == CacheGetUser(id)
       IN  IF got.user # NoUser
               THEN req' = [req EXCEPT ![w] =
                        Respond([r EXCEPT !.via = "cache"], GetUserStatus(NoErr), NoErr,
                                ToPublicUser(got.user))]
           ELSE req' = [req EXCEPT ![w] = [r EXCEPT !.pc = "get_store",
                                                   !.cacheErr = (got.err # NoErr)]]
    /\ UNCHANGED <<users, nextId, cache, tasks, now, dbUp, redisUp, hist>>

\* repo.GetByID, the detached cache population and the response
GetStore(w) ==
    /\ req[w].pc = "get_store"
    /\ LET r == req[w]
           got == GetByID(r.id)
       IN  IF got.err # NoErr
               THEN /\ req' = [req EXCEPT ![w] =
                            Respond([r EXCEPT !.via = "store"],
                                    GetUserStatus(ErrUserNotFound), ErrUserNotFound, NoUser)]
                    /\ tasks' = tasks
           ELSE /\ req' = [req EXCEPT ![w] =
                        Respond([r EXCEPT !.via = "store",
                                          !.issued = @ \cup {<<"set", CacheKey(got.user.id)>>}],
                                GetUserStatus(NoErr), NoErr, ToPublicUser(got.user))]
                /\ tasks' = tasks \cup {GoSetUser(r, got.user)}
    /\ UNCHANGED <<users, nextId, cache, rid, now, dbUp, redisUp, hist>>

-----------------------------------------------------------------------------
(* PUT /users/:id: Handler.UpdateUser, UpdateUserHandler.Handle *)

\* user.Update and the move to repo.Update; an entity error is returned as is
UpdateEntity(w, r, u) ==
    LET upd == UserUpdate(u, r.cmd.name, r.cmd.email, r.cmd.age, now)
    IN  IF upd.err # NoErr
            THEN /\ req' = [req EXCEPT ![w] =
                         Respond(r, UpdateUserStatus(upd.err), upd.err, NoUser)]
                 /\ now' = now
        ELSE /\ req' = [req EXCEPT ![w] = [r EXCEPT !.pc = "update_write",
                                                    !.user = upd.user]]
             /\ now' = now + 1

\* binding and repo.GetByID
HttpUpdateUser(w, id, cmd) ==
    /\ Free(w)
    /\ rid' = rid + 1
    /\ LET r == Accept("update", id, cmd)
           got == GetByID(id)
       IN  IF ~BindUpdateUser(cmd)
               THEN /\ req' = [req EXCEPT ![w] = Respond(r, 400, "binding", NoUser)]
                    /\ now' = now
           ELSE IF got.err # NoErr
               THEN /\ req' = [req EXCEPT ![w] =
                            Respond(r, UpdateUserStatus(ErrUserNotFound), ErrUserNotFound,
                                    NoUser)]
                    /\ now' = now
           ELSE IF got.user.email # cmd.email
               THEN /\ req' = [req EXCEPT ![w] = [r EXCEPT !.pc = "update_check",
                                                           !.user = got.user]]
                    /\ now' = now
           ELSE UpdateEntity(w, r, got.user)
    /\ UNCHANGED <<users, nextId, cache, tasks, dbUp, redisUp, hist>>

\* repo.GetByEmail when the email changes
UpdateCheckEmail(w) ==
    /\ req[w].pc = "update_check"
    /\ LET r == req[w]
           existing == GetByEmail(r.cmd.email).user
       IN  IF existing # NoUser /\ existing.id # r.id
               THEN /\ req' = [req EXCEPT ![w] =
                            Respond([r EXCEPT !.taken = TRUE],
                                    UpdateUserStatus(ErrUserAlreadyExists),
                                    ErrUserAlreadyExists, NoUser)]
                    /\ now' = now
           ELSE UpdateEntity(w, r, r.user)
    /\ UNCHANGED <<users, nextId, cache, tasks, rid, dbUp, redisUp, hist>>

\* mutant: the invalidation is started before the result of repo.Update is
\* looked at
UpdateWrite_InvalidatesFirst(w) ==
    /\ req[w].pc = "update_write"
    /\ LET r == [req[w] EXCEPT !.taken = EmailOwners(req[w].user.email) \ {req[w].id} # {}]
           wr == RepoUpdate(r.user)
           pre == IF r.id \in Stored /\ Profile(users[r.id]) # Profile(r.user)
                      THEN users[r.id].updated_at ELSE 0
       IN  /\ users' = wr.table
           /\ tasks' = tasks \cup {GoDeleteUser(r, r.id, IF wr.err # NoErr THEN 0 ELSE pre)}
           /\ IF wr.err # NoErr
                  THEN /\ req' = [req EXCEPT ![w] =
                               Respond([r EXCEPT !.issued = @ \cup {<<"del", CacheKey(r.id)>>}],
                                       UpdateUserStatus(wr.err), wr.err, NoUser)]
                       /\ hist' = hist
              ELSE /\ req' = [req EXCEPT ![w] =
                           Respond([r EXCEPT !.issued = @ \cup {<<"del", CacheKey(r.id)>>}],
                                   UpdateUserStatus(NoErr), NoErr, ToPublicUser(r.user))]
                   /\ hist' = [hist EXCEPT !.retired[r.id] = @ \cup ({pre} \ {0}),
                                           !.mutated[r.id] = TRUE]
    /\ UNCHANGED <<nextId, cache, rid, now, dbUp, redisUp>>

\* repo.Update, the detached invalidation and the response
UpdateWrite(w) ==
    /\ req[w].pc = "update_write"
    /\ LET r == [req[w] EXCEPT !.taken = EmailOwners(req[w].user.email) \ {req[w].id} # {}]
           wr == RepoUpdate(r.user)
           pre == IF r.id \in Stored /\ Profile(users[r.id]) # Profile(r.user)
                      THEN users[r.id].updated_at ELSE 0
       IN  /\ users' = wr.table
           /\ IF wr.err # NoErr
                  THEN /\ req' = [req EXCEPT ![w] =
                               Respond(r, UpdateUserStatus(wr.err), wr.err, NoUser)]
                       /\ UNCHANGED <<tasks, hist>>
              ELSE /\ req' = [req EXCEPT ![w] =
                           Respond([r EXCEPT !.issued = @ \cup {<<"del", CacheKey(r.id)>>}],
                                   UpdateUserStatus(NoErr), NoErr, ToPublicUser(r.user))]
                   /\ tasks' = tasks \cup {GoDeleteUser(r, r.id, pre)}
                   /\ hist' = [hist EXCEPT !.retired[r.id] = @ \cup ({pre} \ {0}),
                                           !.mutated[r.id] = TRUE]
    /\ UNCHANGED <<nextId, cache, rid, now, dbUp, redisUp>>

-----------------------------------------------------------------------------
(* DELETE /users/:id: Handler.DeleteUser, DeleteUserHandler.Handle *)

\* repo.GetByID
HttpDeleteUser(w, id) ==
    /\ Free(w)
    /\ rid' = rid + 1
    /\ LET r == Accept("delete", id, NoCmd)
           got == GetByID(id)
       IN  IF got.err # NoErr
               THEN req' = [req EXCEPT ![w] =
                        Respond(r, DeleteUserStatus(ErrUserNotFound), ErrUserNotFound, NoUser)]
           ELSE req' = [req EXCEPT ![w] = [r EXCEPT !.pc = "delete_exec"]]
    /\ UNCHANGED <<users, nextId, cache, tasks, now, dbUp, redisUp, hist>>

\* repo.Delete, the detached invalidation and the response
DeleteExec(w) ==
    /\ req[w].pc = "delete_exec"
    /\ LET r == req[w]
           del == RepoDelete(r.id)
       IN  /\ users' = del.table
           /\ IF del.err # NoErr
                  THEN /\ req' = [req EXCEPT ![w] =
                               Respond(r, DeleteUserStatus(del.err), del.err, NoUser)]
                       /\ UNCHANGED <<tasks, hist>>
              ELSE /\ req' = [req EXCEPT ![w] =
                           Respond([r EXCEPT !.issued = @ \cup {<<"del", CacheKey(r.id)>>}],
                                   DeleteUserStatus(NoErr), NoErr, NoUser)]
                   /\ tasks' = tasks \cup {GoDeleteUser(r, r.id, 0)}
                   /\ hist' = [hist EXCEPT !.deleted[r.id] = TRUE, !.mutated[r.id] = TRUE]
    /\ UNCHANGED <<nextId, cache, rid, now, dbUp, redisUp>>

-----------------------------------------------------------------------------
(* PUT /users/:id/change-password: Handler.ChangePassword,                 *)
(* ChangePasswordHandler.Handle                                            *)

\* binding, repo.GetByID and user.UpdatePassword
HttpChangePassword(w, id, cmd) ==
    /\ Free(w)
    /\ rid' = rid + 1
    /\ LET r == Accept("chpw", id, cmd)
           got == GetByID(id)
           upd == UpdatePassword(got.user, cmd.old_password, cmd.new_password, now)
       IN  IF ~BindChangePassword(cmd)
               THEN /\ req' = [req EXCEPT ![w] = Respond(r, 400, "binding", NoUser)]
                    /\ now' = now
           ELSE IF got.err # NoErr
               THEN /\ req' = [req EXCEPT ![w] =
                            Respond(r, ChangePasswordStatus(ErrUserNotFound),
                                    ErrUserNotFound, NoUser)]
                    /\ now' = now
           ELSE IF upd.err # NoErr
               THEN /\ req' = [req EXCEPT ![w] =
                            Respond(r, ChangePasswordStatus(upd.err), upd.err, NoUser)]
                    /\ now' = now
           ELSE /\ req' = [req EXCEPT ![w] = [r EXCEPT !.pc = "chpw_write",
                                                       !.user = upd.user]]
                /\ now' = now + 1
    /\ UNCHANGED <<users, nextId, cache, tasks, dbUp, redisUp, hist>>

\* repo.Update, the detached invalidation and the response
ChangePasswordWrite(w) ==
    /\ req[w].pc = "chpw_write"
    /\ LET r == req[w]
           wr == RepoUpdate(r.user)
       IN  /\ users' = wr.table
           /\ IF wr.err # NoErr
                  THEN /\ req' = [req EXCEPT ![w] =
                               Respond(r, ChangePasswordStatus(wr.err), wr.err, NoUser)]
                       /\ UNCHANGED <<tasks, hist>>
              ELSE /\ req' = [req EXCEPT ![w] =
                           Respond([r EXCEPT !.issued = @ \cup {<<"del", CacheKey(r.id)>>}],
                                   ChangePasswordStatus(NoErr), NoErr, NoUser)]
                   /\ tasks' = tasks \cup {GoDeleteUser(r, r.id, 0)}
                   /\ hist' = [hist EXCEPT !.mutated[r.id] = TRUE]
    /\ UNCHANGED <<nextId, cache, rid, now, dbUp, redisUp>>

-----------------------------------------------------------------------------
(* GET /users and GET /users/search: Handler.ListUsers, Handler.SearchUsers, *)
(* ListUsersHandler.Handle, SearchUsersHandler.Handle, FindWithFilters,      *)
(* Search                                                                    *)

\* a query parameter as it arrives: absent, text that is not a number, a
\* number, digits beyond the range of int, or a word
NoParam == [k |-> "absent"]
TextParam == [k |-> "text"]
HugeParam == [k |-> "huge"]
IntParam(n) == [k |-> "int", v |-> n]
StrParam(str) == [k |-> "str", v |-> str]

\* strconv.Atoi(c.DefaultQuery(key, def)) with the error dropped: 0 for text,
\* the largest int for digits out of range
Atoi(tok, def) ==
    IF tok.k = "absent" THEN def
    ELSE IF tok.k = "int" THEN tok.v
    ELSE IF tok.k = "huge" THEN MaxInt64
    ELSE I64(0)

\* c.DefaultQuery(key, def) for a word
DefaultQuery(tok, def) == IF tok.k = "absent" THEN def ELSE tok.v

\* Handler.ListUsers: the ListUsersQuery built from the query string
ParseListUsers(p) ==
    [search |-> p.search,
     age_min |-> Atoi(p.age_min, I64(0)),
     age_max |-> Atoi(p.age_max, I64(0)),
     sort |-> DefaultQuery(p.sort, "id"),
     order |-> DefaultQuery(p.order, "asc"),
     page |-> Atoi(p.page, I64(1)),
     limit |-> Atoi(p.limit, I64(10))]

\* Handler.SearchUsers: the SearchUsersQuery built from the query string
ParseSearchUsers(p) ==
    [keyword |-> p.q, page |-> Atoi(p.page, I64(1)), limit |-> Atoi(p.limit, I64(10))]

DefaultLimit == 10
MaxLimit == 100

NormalizePage(page) == IF LessThan(page, 1) THEN I64(1) ELSE page

\* mutant: no ceiling on the page size
NormalizeLimit_NoCeiling(limit) == IF LessThan(limit, 1) THEN I64(DefaultLimit) ELSE limit

NormalizeLimit(limit) ==
    IF LessThan(limit, 1) THEN I64(DefaultLimit)
    ELSE IF GreaterThan(limit, MaxLimit) THEN I64(MaxLimit)
    ELSE limit

\* ListUsersHandler.Handle: "Set defaults"
NormalizeList(q) ==
    [q EXCEPT !.page = NormalizePage(q.page),
              !.limit = NormalizeLimit(q.limit),
              !.sort = IF q.sort = "" THEN "id" ELSE q.sort,
              !.order = IF q.order = "" THEN "asc" ELSE q.order]

\* SearchUsersHandler.Handle: "Set defaults"
NormalizeSearch(q) ==
    [q EXCEPT !.page = NormalizePage(q.page), !.limit = NormalizeLimit(q.limit)]

\* mutant: the integer division without the remainder bump
TotalPages_NoBump(total, limit) == total \div limit

\* totalPages := int(total) / limit, plus one when there is a remainder
TotalPages(total, limit) == (total \div limit) + (IF total % limit > 0 THEN 1 ELSE 0)

\* name ILIKE '%kw%' OR email ILIKE '%kw%' (the text is lower-case throughout)
KeywordMatches(u, kw) ==
    LET pat == <<"%">> \o kw \o <<"%">>
    IN  Like(u.name, pat) \/ Like(u.email, pat)

\* mutant: the maximum age is left out of the WHERE clause
Matches_NoUpperBound(q, u) ==
    /\ q.search # Empty => KeywordMatches(u, q.search)
    /\ GreaterThan(q.age_min, 0) => (Fits(q.age_min) /\ u.age >= ToInt(q.age_min))

\* FindWithFilters: the WHERE clause
Matches(q, u) ==
    /\ q.search # Empty => KeywordMatches(u, q.search)
    /\ GreaterThan(q.age_min, 0) => (Fits(q.age_min) /\ u.age >= ToInt(q.age_min))
    /\ GreaterThan(q.age_max, 0) => (~Fits(q.age_max) \/ u.age <= ToInt(q.age_max))

Matching(q) == {i \in Stored : Matches(q, users[i])}

SearchMatching(q) == {i \in Stored : KeywordMatches(users[i], q.keyword)}

ValidSortFields == {"id", "name", "email", "age", "created_at"}

\* mutant: an unknown sort field falls back to the name column
SortField_FallbackName(q) == IF q.sort \in ValidSortFields THEN q.sort ELSE "name"

\* FindWithFilters: "Validate sort field", "Validate order"
SortField(q) == IF q.sort \in ValidSortFields THEN q.sort ELSE "id"
SortOrder(q) == IF q.order # "asc" /\ q.order # "desc" THEN "asc" ELSE q.order

\* row u sorts strictly before row v on the column
KeyLess(field, u, v) ==
    IF field = "name" THEN StrLess(u.name, v.name)
    ELSE IF field = "email" THEN StrLess(u.email, v.email)
    ELSE IF field = "age" THEN u.age < v.age
    ELSE IF field = "created_at" THEN u.created_at < v.created_at
    ELSE u.id < v.id

\* ORDER BY field order: every arrangement of the rows that respects the
\* column; rows with equal keys come in any order
Orderings(S, field, order) ==
    {o \in [1..Cardinality(S) -> S] :
        /\ \A i, j \in 1..Cardinality(S) : i # j => o[i] # o[j]
        /\ \A i, j \in 1..Cardinality(S) :
              i < j => IF order = "desc" THEN ~KeyLess(field, users[o[i]], users[o[j]])
                       ELSE ~KeyLess(field, users[o[j]], users[o[i]])}

\* offset := (page - 1) * limit
Offset(page, limit) == MulSmall(SubOne(page), ToInt(limit))

\* LIMIT limit OFFSET offset over the ordered rows
Slice(o, limit, offset) ==
    IF ~Fits(offset) \/ ToInt(offset) >= Len(o) THEN <<>>
    ELSE LET first == ToInt(offset) + 1
             last == IF first + ToInt(limit) - 1 < Len(o) THEN first + ToInt(limit) - 1
                     ELSE Len(o)
         IN  SubSeq(o, first, last)

ErrNegativeOffset == "OFFSET must not be negative"

\* the payload of a list or search answer
ListResult(rows, total, q) ==
    [users |-> [i \in 1..Len(rows) |-> ToPublicUser(users[rows[i]])],
     total |-> total,
     page |-> q.page,
     limit |-> ToInt(q.limit),
     total_pages |-> TotalPages(total, ToInt(q.limit))]

\* the rows query and the response, for an ORDER BY and a counted total
RowsStep(w, field, order, S) ==
    LET r == req[w]
        q == r.data.q
        offset == Offset(q.page, q.limit)
    IN  IF ~dbUp
            THEN req' = [req EXCEPT ![w] = Respond(r, 500, ErrDb, NoUser)]
        ELSE IF IsNeg(offset)
            THEN req' = [req EXCEPT ![w] = Respond(r, 500, ErrNegativeOffset, NoUser)]
        ELSE \E o \in Orderings(S, field, order) :
                req' = [req EXCEPT ![w] =
                    Respond(r, 200, NoErr,
                            ListResult(Slice(o, q.limit, offset), r.data.total, q))]

\* normalisation and the count query of FindWithFilters
HttpListUsers(w, p) ==
    /\ Free(w)
    /\ rid' = rid + 1
    /\ LET r == Accept("list", 0, ParseListUsers(p))
           q == NormalizeList(r.cmd)
       IN  IF ~dbUp
               THEN req' = [req EXCEPT ![w] = Respond(r, 500, ErrDb, NoUser)]
           ELSE req' = [req EXCEPT ![w] =
                    [r EXCEPT !.pc = "list_rows",
                              !.data = [q |-> q, total |-> Cardinality(Matching(q))]]]
    /\ UNCHANGED <<users, nextId, cache, tasks, now, dbUp, redisUp, hist>>

\* mutant: the listed rows are also written to the cache
ListRows_Populates(w) ==
    /\ req[w].pc = "list_rows"
    /\ RowsStep(w, SortField(req[w].data.q), SortOrder(req[w].data.q),
                Matching(req[w].data.q))
    /\ tasks' = tasks \cup {GoSetUser(req[w], users[i]) : i \in Matching(req[w].data.q)}
    /\ UNCHANGED <<users, nextId, cache, rid, now, dbUp, redisUp, hist>>

\* the main query of FindWithFilters and the response
ListRows(w) ==
    /\ req[w].pc = "list_rows"
    /\ RowsStep(w, SortField(req[w].data.q), SortOrder(req[w].data.q),
                Matching(req[w].data.q))
    /\ UNCHANGED <<users, nextId, cache, tasks, rid, now, dbUp, redisUp, hist>>

\* the keyword test, normalisation and the count query of Search
HttpSearchUsers(w, p) ==
    /\ Free(w)
    /\ rid' = rid + 1
    /\ LET r == Accept("search", 0, ParseSearchUsers(p))
           q == NormalizeSearch(r.cmd)
       IN  IF r.cmd.keyword = Empty
               THEN req' = [req EXCEPT ![w] =
                        Respond(r, 400, "search keyword is required", NoUser)]
           ELSE IF ~dbUp
               THEN req' = [req EXCEPT ![w] = Respond(r, 500, ErrDb, NoUser)]
           ELSE req' = [req EXCEPT ![w] =
                    [r EXCEPT !.pc = "search_rows",
                              !.data = [q |-> q, total |-> Cardinality(SearchMatching(q))]]]
    /\ UNCHANGED <<users, nextId, cache, tasks, now, dbUp, redisUp, hist>>

\* the search query of Search (ORDER BY id) and the response
SearchRows(w) ==
    /\ req[w].pc = "search_rows"
    /\ RowsStep(w, "id", "asc", SearchMatching(req[w].data.q))
    /\ UNCHANGED <<users, nextId, cache, tasks, rid, now, dbUp, redisUp, hist>>

\* the page arithmetic on its own: total and limit given, total_pages out
Paginate(w) ==
    /\ req[w].pc = "pages"
    /\ req' = [req EXCEPT ![w] =
           Respond(req[w], 200, NoErr,
                   [total |-> req[w].cmd.total, limit |-> req[w].cmd.limit,
                    total_pages |-> TotalPages(req[w].cmd.total, req[w].cmd.limit)])]
    /\ UNCHANGED <<users, nextId, cache, tasks, rid, now, dbUp, redisUp, hist>>

-----------------------------------------------------------------------------
(* Detached cache tasks, expiry, and the two stores going away *)

StaleSets(id, stamp) ==
    {t \in tasks : t.kind = "set" /\ t.id = id /\ t.user.updated_at = stamp}

PendingSets(id) == {t \in tasks : t.kind = "set" /\ t.id = id}

\* the goroutine of GetUserHandler.Handle: cache.SetUser, an error is logged
RunSetUser(t) ==
    /\ t \in tasks /\ t.kind = "set"
    /\ cache' = CacheSetUser(t.user)
    /\ tasks' = tasks \ {t}
    /\ UNCHANGED <<users, nextId, req, rid, now, dbUp, redisUp, hist>>

\* the goroutine of the three mutating handlers: cache.DeleteUser, the error
\* is dropped
RunDeleteUser(t) ==
    /\ t \in tasks /\ t.kind = "del"
    /\ cache' = CacheDeleteUser(t.id)
    /\ tasks' = tasks \ {t}
    /\ hist' = IF ~redisUp THEN hist
               ELSE IF t.by = "update" /\ StaleSets(t.id, t.pre) = {}
                   THEN [hist EXCEPT !.clean[t.id] = @ \cup ({t.pre} \ {0})]
               ELSE IF t.by = "delete" /\ PendingSets(t.id) = {}
                   THEN [hist EXCEPT !.purged[t.id] = TRUE]
               ELSE hist
    /\ UNCHANGED <<users, nextId, req, rid, now, dbUp, redisUp>>

\* Redis drops a key whose time-to-live has run out, reachable or not
Expire(k) ==
    /\ cache[k] # NoEntry
    /\ cache[k].ttl > 0
    /\ cache' = [cache EXCEPT ![k] = NoEntry]
    /\ UNCHANGED <<users, nextId, tasks, req, rid, now, dbUp, redisUp, hist>>

DbFail ==
    /\ dbUp
    /\ dbUp' = FALSE
    /\ UNCHANGED <<users, nextId, cache, tasks, req, rid, now, redisUp, hist>>

DbRecover ==
    /\ ~dbUp
    /\ dbUp' = TRUE
    /\ UNCHANGED <<users, nextId, cache, tasks, req, rid, now, redisUp, hist>>

RedisFail ==
    /\ redisUp
    /\ redisUp' = FALSE
    /\ UNCHANGED <<users, nextId, cache, tasks, req, rid, now, dbUp, hist>>

RedisRecover ==
    /\ ~redisUp
    /\ redisUp' = TRUE
    /\ UNCHANGED <<users, nextId, cache, tasks, req, rid, now, dbUp, hist>>

-----------------------------------------------------------------------------
(* Specifications *)

Init ==
    /\ users = [i \in Ids |-> NoUser]
    /\ nextId = 1
    /\ cache = [k \in Keys |-> NoEntry]
    /\ tasks = {}
    /\ req = [w \in Workers |-> Idle]
    /\ rid = 0
    /\ now = 1
    /\ dbUp = TRUE
    /\ redisUp = TRUE
    /\ hist = [retired |-> [i \in Ids |-> {}], clean |-> [i \in Ids |-> {}],
               deleted |-> [i \in Ids |-> FALSE], purged |-> [i \in Ids |-> FALSE],
               mutated |-> [i \in Ids |-> FALSE], created |-> [i \in Ids |-> NoCmd]]

CreateCmds ==
    [name : {NameA}, email : {EmailX, EmailY}, password : {PwA}, age : {30}]

UpdateCmds == [name : {NameB}, email : {EmailX, EmailY}, age : {30}]

ChangePasswordCmds == [old_password : {PwA}, new_password : {PwB}]

\* the steps a request takes after it was accepted
Step(w) ==
    \/ CreateInsert(w)
    \/ GetStore(w)
    \/ UpdateCheckEmail(w)
    \/ UpdateWrite(w)
    \/ DeleteExec(w)
    \/ ChangePasswordWrite(w)

Background ==
    \/ \E t \in tasks : RunSetUser(t)
    \/ \E t \in tasks : RunDeleteUser(t)
    \/ \E k \in Keys : Expire(k)

Next ==
    \/ \E w \in Workers, cmd \in CreateCmds : HttpCreateUser(w, cmd)
    \/ \E w \in Workers, id \in Ids : HttpGetUser(w, id)
    \/ \E w \in Workers, id \in Ids, cmd \in UpdateCmds : HttpUpdateUser(w, id, cmd)
    \/ \E w \in Workers, id \in Ids : HttpDeleteUser(w, id)
    \/ \E w \in Workers, id \in Ids, cmd \in ChangePasswordCmds :
           HttpChangePassword(w, id, cmd)
    \/ \E w \in Workers : Step(w)
    \/ Background

Spec == Init /\ [][Next]_vars

\* the service after one POST /users has been answered 201
FirstCmd == [name |-> NameA, email |-> EmailX, password |-> PwA, age |-> 30]

FirstUser ==
    [NewUser(FirstCmd.name, FirstCmd.email, FirstCmd.password, FirstCmd.age, 1).user
        EXCEPT !.id = 1]

InitWarm ==
    /\ users = [i \in Ids |-> IF i = 1 THEN FirstUser ELSE NoUser]
    /\ nextId = 2
    /\ cache = [k \in Keys |-> NoEntry]
    /\ tasks = {}
    /\ req = [w \in Workers |-> Idle]
    /\ rid = 0
    /\ now = 2
    /\ dbUp = TRUE
    /\ redisUp = TRUE
    /\ hist = [retired |-> [i \in Ids |-> {}], clean |-> [i \in Ids |-> {}],
               deleted |-> [i \in Ids |-> FALSE], purged |-> [i \in Ids |-> FALSE],
               mutated |-> [i \in Ids |-> FALSE],
               created |-> [i \in Ids |-> IF i = 1 THEN FirstCmd ELSE NoCmd]]

WarmUpdateCmds == [name : {NameB}, email : {EmailY}, age : {30}]

\* reads and writes of the stored user only
NextWarm ==
    \/ \E w \in Workers : HttpGetUser(w, 1)
    \/ \E w \in Workers, cmd \in WarmUpdateCmds : HttpUpdateUser(w, 1, cmd)
    \/ \E w \in Workers : HttpDeleteUser(w, 1)
    \/ \E w \in Workers, cmd \in ChangePasswordCmds : HttpChangePassword(w, 1, cmd)
    \/ \E w \in Workers : GetStore(w)
    \/ \E w \in Workers : UpdateCheckEmail(w)
    \/ \E w \in Workers : UpdateWrite(w)
    \/ \E w \in Workers : DeleteExec(w)
    \/ \E w \in Workers : ChangePasswordWrite(w)
    \/ Background

SpecWarm == InitWarm /\ [][NextWarm]_vars

\* one request at a time, with well-formed and malformed bodies
\* (a well-formed body, and the bodies that differ from it in one field)
SeqCreateCmds ==
    {[FirstCmd EXCEPT !.name = n] : n \in {NameA, NamePadded, NameBlank, Empty}}
        \cup {[FirstCmd EXCEPT !.email = e] : e \in {EmailY, EmailPadded, EmailBad}}
        \cup {[FirstCmd EXCEPT !.password = p] : p \in {PwShort, PwPadShort, PwPadded}}
        \cup {[FirstCmd EXCEPT !.age = a] : a \in {-1, 0, 150, 151}}

SeqUpdateCmds ==
    {[name |-> n, email |-> EmailY, age |-> 30] : n \in {NameB, NameBlank, Empty}}
        \cup {[name |-> NameB, email |-> e, age |-> 30] : e \in {EmailX, EmailBad}}
        \cup {[name |-> NameB, email |-> EmailY, age |-> a] : a \in {0, 151}}

SeqChangePasswordCmds ==
    {[old_password |-> o, new_password |-> PwB] : o \in {PwA, PwB, PwPadded, Empty}}
        \cup {[old_password |-> PwA, new_password |-> n] : n \in {PwA, PwShort, Empty}}
        \cup {[old_password |-> PwB, new_password |-> PwShort]}

NextSeq ==
    \/ \E cmd \in SeqCreateCmds : HttpCreateUser(1, cmd)
    \/ \E id \in Ids : HttpGetUser(1, id)
    \/ \E id \in Ids, cmd \in SeqUpdateCmds : HttpUpdateUser(1, id, cmd)
    \/ \E id \in Ids : HttpDeleteUser(1, id)
    \/ \E id \in Ids, cmd \in SeqChangePasswordCmds : HttpChangePassword(1, id, cmd)
    \/ Step(1)
    \/ Background

SpecSeq == Init /\ [][NextSeq]_vars

\* one request at a time on the stored user, while Redis and PostgreSQL
\* come and go
NextFault ==
    \/ HttpGetUser(1, 1)
    \/ \E cmd \in WarmUpdateCmds : HttpUpdateUser(1, 1, cmd)
    \/ HttpDeleteUser(1, 1)
    \/ \E cmd \in ChangePasswordCmds : HttpChangePassword(1, 1, cmd)
    \/ GetStore(1)
    \/ UpdateCheckEmail(1)
    \/ UpdateWrite(1)
    \/ DeleteExec(1)
    \/ ChangePasswordWrite(1)
    \/ Background
    \/ DbFail
    \/ DbRecover
    \/ RedisFail
    \/ RedisRecover

SpecFault == InitWarm /\ [][NextFault]_vars

\* the detached tasks run and Redis expires keys
Fairness ==
    /\ \A k \in Keys : WF_vars(Expire(k))
    /\ WF_vars(\E t \in tasks : RunSetUser(t))
    /\ WF_vars(\E t \in tasks : RunDeleteUser(t))

SpecLive == InitWarm /\ [][NextFault]_vars /\ Fairness

\* a table of users with different names and ages, nothing cached
ListUser(i) ==
    [id |-> i,
     name |-> <<NameB, NameA, <<"c">>>>[((i - 1) % 3) + 1],
     email |-> <<Letters[((22 + i) % 26) + 1], "@", "d">>,
     password_hash |-> Hash(PwA),
     age |-> <<30, 20, 30>>[((i - 1) % 3) + 1],
     created_at |-> i, updated_at |-> i]

InitList ==
    /\ users = [i \in Ids |-> ListUser(i)]
    /\ nextId = MaxUsers + 1
    /\ cache = [k \in Keys |-> NoEntry]
    /\ tasks = {}
    /\ req = [w \in Workers |-> Idle]
    /\ rid = 0
    /\ now = MaxUsers + 1
    /\ dbUp = TRUE
    /\ redisUp = TRUE
    /\ hist = [retired |-> [i \in Ids |-> {}], clean |-> [i \in Ids |-> {}],
               deleted |-> [i \in Ids |-> FALSE], purged |-> [i \in Ids |-> FALSE],
               mutated |-> [i \in Ids |-> FALSE], created |-> [i \in Ids |-> NoCmd]]

\* 10^18: a page whose offset no longer fits an int
PageBig == <<0, 25703, 46116, 3552>>

BaseListParams ==
    [search |-> Empty, age_min |-> NoParam, age_max |-> NoParam, sort |-> NoParam,
     order |-> NoParam, page |-> NoParam, limit |-> NoParam]

\* the plain query string, and the query strings that differ from it in one
\* or two parameters
ListParams ==
    {BaseListParams, [BaseListParams EXCEPT !.search = NameA]}
        \cup {[BaseListParams EXCEPT !.age_min = a] :
                 a \in {IntParam(I64(25)), IntParam(I64(-5)), TextParam}}
        \cup {[BaseListParams EXCEPT !.age_max = IntParam(I64(25))],
              [BaseListParams EXCEPT !.age_min = IntParam(I64(25)),
                                     !.age_max = IntParam(I64(30))]}
        \cup {[BaseListParams EXCEPT !.sort = StrParam(f)] :
                 f \in {"name", "age", "password", ""}}
        \cup {[BaseListParams EXCEPT !.order = StrParam(d)] : d \in {"desc", "up", ""}}
        \cup {[BaseListParams EXCEPT !.sort = StrParam(f), !.order = StrParam("desc")] :
                 f \in {"name", "password"}}
        \cup {[BaseListParams EXCEPT !.page = g] :
                 g \in {IntParam(I64(0)), IntParam(I64(-3)), IntParam(I64(2)), TextParam,
                        HugeParam, IntParam(PageBig)}}
        \cup {[BaseListParams EXCEPT !.limit = l] :
                 l \in {IntParam(I64(0)), IntParam(I64(-1)), IntParam(I64(1)),
                        IntParam(I64(500)), HugeParam, TextParam}}
        \cup {[BaseListParams EXCEPT !.page = IntParam(I64(2)), !.limit = IntParam(I64(1))]}

SearchParams ==
    {[q |-> k, page |-> NoParam, limit |-> NoParam] : k \in {Empty, NameA, <<"@">>}}
        \cup {[q |-> <<"@">>, page |-> g, limit |-> IntParam(I64(1))] :
                 g \in {IntParam(I64(2)), IntParam(I64(0)), HugeParam}}
        \cup {[q |-> <<"@">>, page |-> NoParam, limit |-> IntParam(I64(500))]}

\* lists and searches on one worker; while one is between its count and its
\* rows query the other worker serves reads by id and a delete
NextList ==
    \/ \E p \in ListParams : HttpListUsers(1, p)
    \/ ListRows(1)
    \/ \E p \in SearchParams : HttpSearchUsers(1, p)
    \/ SearchRows(1)
    \/ \E id \in Ids : HttpGetUser(2, id)
    \/ GetStore(2)
    \/ HttpDeleteUser(2, 1)
    \/ DeleteExec(2)
    \/ Background

SpecList == InitList /\ [][NextList]_vars

\* the page arithmetic for every total up to MaxTotal and every page size
MaxTotal == 12

InitPages ==
    /\ users = [i \in Ids |-> NoUser]
    /\ nextId = 1
    /\ cache = [k \in Keys |-> NoEntry]
    /\ tasks = {}
    /\ \E t \in 0..MaxTotal, l \in 1..MaxLimit :
          req = [w \in Workers |->
                    IF w = 1 THEN [Idle EXCEPT !.pc = "pages", !.op = "pages",
                                               !.cmd = [total |-> t, limit |-> l]]
                    ELSE Idle]
    /\ rid = 0
    /\ now = 1
    /\ dbUp = TRUE
    /\ redisUp = TRUE
    /\ hist = [retired |-> [i \in Ids |-> {}], clean |-> [i \in Ids |-> {}],
               deleted |-> [i \in Ids |-> FALSE], purged |-> [i \in Ids |-> FALSE],
               mutated |-> [i \in Ids |-> FALSE], created |-> [i \in Ids |-> NoCmd]]

NextPages == \E w \in Workers : Paginate(w)

SpecPages == InitPages /\ [][NextPages]_vars

\* one stored user whose credential is either of two; creates, reads by id and
\* updates on one worker, lists and searches on the other
InitViews ==
    /\ \E h \in {Hash(PwA), Hash(PwB)} :
           users = [i \in Ids |-> IF i = 1 THEN [ListUser(1) EXCEPT !.password_hash = h]
                                  ELSE NoUser]
    /\ nextId = 2
    /\ cache = [k \in Keys |-> NoEntry]
    /\ tasks = {}
    /\ req = [w \in Workers |-> Idle]
    /\ rid = 0
    /\ now = 2
    /\ dbUp = TRUE
    /\ redisUp = TRUE
    /\ hist = [retired |-> [i \in Ids |-> {}], clean |-> [i \in Ids |-> {}],
               deleted |-> [i \in Ids |-> FALSE], purged |-> [i \in Ids |-> FALSE],
               mutated |-> [i \in Ids |-> FALSE], created |-> [i \in Ids |-> NoCmd]]

ViewListParams == {BaseListParams, [BaseListParams EXCEPT !.sort = StrParam("name")]}

ViewSearchParams == {[q |-> <<"@">>, page |-> NoParam, limit |-> NoParam]}

NextViews ==
    \/ \E p \in ViewListParams : HttpListUsers(1, p)
    \/ ListRows(1)
    \/ \E p \in ViewSearchParams : HttpSearchUsers(1, p)
    \/ SearchRows(1)
    \/ \E cmd \in CreateCmds : HttpCreateUser(2, cmd)
    \/ CreateInsert(2)
    \/ \E id \in Ids : HttpGetUser(2, id)
    \/ GetStore(2)
    \/ \E cmd \in UpdateCmds : HttpUpdateUser(2, 1, cmd)
    \/ UpdateCheckEmail(2)
    \/ UpdateWrite(2)
    \/ Background

SpecViews == InitViews /\ [][NextViews]_vars

\* a table whose users all have the same age, nothing cached, and two
\* workers that serve pages of one row each
InitTies ==
    /\ users = [i \in Ids |-> [ListUser(i) EXCEPT !.age = 30]]
    /\ nextId = MaxUsers + 1
    /\ cache = [k \in Keys |-> NoEntry]
    /\ tasks = {}
    /\ req = [w \in Workers |-> Idle]
    /\ rid = 0
    /\ now = MaxUsers + 1
    /\ dbUp = TRUE
    /\ redisUp = TRUE
    /\ hist = [retired |-> [i \in Ids |-> {}], clean |-> [i \in Ids |-> {}],
               deleted |-> [i \in Ids |-> FALSE], purged |-> [i \in Ids |-> FALSE],
               mutated |-> [i \in Ids |-> FALSE], created |-> [i \in Ids |-> NoCmd]]

TieListParams ==
    {[BaseListParams EXCEPT !.sort = StrParam(f), !.limit = IntParam(I64(1)),
                            !.page = IntParam(I64(g))] :
        f \in {"id", "age"}, g \in 1..(MaxUsers + 1)}

TieSearchParams ==
    {[q |-> <<"@">>, page |-> IntParam(I64(g)), limit |-> IntParam(I64(1))] :
        g \in 1..(MaxUsers + 1)}

NextTies ==
    \/ \E w \in Workers, p \in TieListParams : HttpListUsers(w, p)
    \/ \E w \in Workers : ListRows(w)
    \/ \E w \in Workers, p \in TieSearchParams : HttpSearchUsers(w, p)
    \/ \E w \in Workers : SearchRows(w)

SpecTies == InitTies /\ [][NextTies]_vars

-----------------------------------------------------------------------------
(* Properties *)

DoneGets == {w \in Workers : req[w].pc = "done" /\ req[w].op = "get"}

Done(op) == {w \in Workers : req[w].pc = "done" /\ req[w].op = op}

\* worker w writes its response in this step
Completes(w) == req'[w].pc = "done" /\ (Busy(w) \/ (rid' # rid /\ Free(w)))

NewTasks == tasks' \ tasks

\* C1 as stated: a get-by-id that starts after an update of the same id has
\* returned success never answers from the cache with the profile that update
\* replaced.
C1_NoStaleHitAfterUpdate ==
    \A w \in DoneGets :
        req[w].via = "cache" => req[w].data.updated_at \notin req[w].seen.retired

\* C1 amended: once the update's detached cache delete has run, with no cache
\* population of the replaced row still pending at that moment, a get-by-id
\* that starts afterwards never answers from the cache with the profile the
\* update replaced.
C1_NoStaleHitAfterInvalidation ==
    \A w \in DoneGets :
        req[w].via = "cache" => req[w].data.updated_at \notin req[w].seen.clean

\* a get-by-id started after an update's invalidation ran, missed and answered
\* from the store with the updated row
C1_Witness ==
    \E w \in DoneGets :
        /\ req[w].seen.clean # {}
        /\ req[w].via = "store"
        /\ req[w].status = 200
        /\ req[w].data.updated_at \notin req[w].seen.retired

\* a get-by-id started after an update's invalidation ran and was answered
\* from the repopulated cache
C1_WitnessHit ==
    \E w \in DoneGets :
        /\ req[w].seen.clean # {}
        /\ req[w].via = "cache"

\* C2 as stated: a get-by-id that starts after delete(id) has returned success
\* fails with NotFound.
C2_NotFoundAfterDelete ==
    \A w \in DoneGets :
        req[w].seen.deleted => req[w].status = 404 /\ req[w].err = ErrUserNotFound

\* C2 amended: once the delete's detached cache delete has run, with no cache
\* population for the id still pending at that moment, every get-by-id that
\* starts afterwards fails with NotFound.
C2_NotFoundAfterPurge ==
    \A w \in DoneGets :
        req[w].seen.purged => req[w].status = 404 /\ req[w].err = ErrUserNotFound

\* a get-by-id of an id that had been read and cached, then deleted and purged
C2_Witness ==
    \E w \in DoneGets :
        /\ req[w].seen.purged
        /\ req[w].via = "store"
        /\ req[w].status = 404

\* C3: of two creates with the same email that both passed the by-email
\* pre-check before either inserted, one is answered 201 and the other 409
\* (Conflict), not 500.
C3_RacingCreateIsConflict ==
    \A w1, w2 \in Done("create") :
        (w1 # w2 /\ req[w1].raced /\ req[w2].raced /\ req[w1].cmd.email = req[w2].cmd.email)
            => {req[w1].status, req[w2].status} = {201, 409}

\* C4: a create command whose email is held by a stored user is answered
\* Conflict (409, ErrUserAlreadyExists) and leaves the table as it was.
C4_DuplicateEmailConflict ==
    [][\A w \in Workers :
          (Completes(w) /\ req'[w].op = "create" /\ req'[w].taken
                /\ BindCreateUser(req'[w].cmd))
            => /\ req'[w].status = 409
               /\ req'[w].err = ErrUserAlreadyExists
               /\ users' = users]_vars

\* the second of two creates with one email was answered 409
C4_Witness ==
    \E w \in Done("create") :
        /\ req[w].taken
        /\ req[w].status = 409
        /\ \E i \in Stored : users[i].email = req[w].cmd.email

UniqueEmails == \A i, j \in Stored : i # j => users[i].email # users[j].email

\* C5: no two stored users share an email, and an update that would give a
\* user the email of another stored user is answered Conflict (409).
C5_UniqueEmailAndConflict ==
    /\ UniqueEmails
    /\ \A w \in Done("update") : req[w].taken => req[w].status = 409

\* a body whose fields are already in normal form and in range
Normal(cmd) ==
    /\ cmd.name # Empty /\ TrimSpace(cmd.name) = cmd.name
    /\ cmd.email # Empty /\ IsEmail(cmd.email)
    /\ TrimSpace(cmd.password) = cmd.password /\ Len(cmd.password) >= 8
    /\ cmd.age >= 0 /\ cmd.age <= 150

\* C6: a create with a name, an email nobody holds, a password of at least 8
\* characters and an age in [0,150] succeeds, and a following get-by-id of the
\* assigned identifier returns the same name, email and age and no credential.
C6_CreateThenGet ==
    /\ \A w \in Done("create") :
           (Normal(req[w].cmd) /\ ~req[w].taken) => req[w].status = 201
    /\ \A w \in DoneGets :
           LET cmd == hist.created[req[w].id]
           IN  (cmd # NoCmd /\ Normal(cmd) /\ ~hist.mutated[req[w].id])
                   => /\ req[w].status = 200
                      /\ req[w].data.name = cmd.name
                      /\ req[w].data.email = cmd.email
                      /\ req[w].data.age = cmd.age
                      /\ "password_hash" \notin DOMAIN req[w].data

\* C7: a successful update, delete or change-password starts exactly one
\* cache operation, a delete of the key of the identifier it changed; a create
\* starts none and touches no cache entry.
C7_InvalidatesOwnKeyOnly ==
    [][\A w \in Workers :
          Completes(w) =>
            /\ (req'[w].op \in {"update", "delete", "chpw"} /\ req'[w].status = 200)
                => /\ Cardinality(NewTasks) = 1
                   /\ \A t \in NewTasks : t.kind = "del" /\ CacheKey(t.id) = CacheKey(req'[w].id)
                   /\ tasks \subseteq tasks'
                   /\ cache' = cache
            /\ req'[w].op = "create"
                => /\ tasks' = tasks
                   /\ cache' = cache
                   /\ req'[w].issued = {}]_vars

\* an update, a delete and a change-password each left their invalidation
\* behind, next to a finished create
C7_Witness ==
    /\ \E t \in tasks : t.kind = "del" /\ t.by = "update"
    /\ \E t \in tasks : t.kind = "del" /\ t.by \in {"delete", "chpw"}
    /\ \E w \in Workers : req[w].pc = "done" /\ req[w].status = 200

\* C8: after a write to an identifier has completed, and with the detached
\* cache tasks and key expiry eventually run, the cache entry of that
\* identifier is eventually absent.
C8_EventuallyMisses ==
    \A id \in Ids : hist.mutated[id] ~> (cache[CacheKey(id)] = NoEntry)

\* a write completed, its invalidation ran and the entry is still cached
C8_Witness ==
    \E id \in Ids :
        /\ hist.mutated[id]
        /\ cache[CacheKey(id)] # NoEntry
        /\ ~\E t \in tasks : t.kind = "del" /\ t.id = id

\* the response the store dictates for a get-by-id
StoreAnswer(id) ==
    IF GetByID(id).err = NoErr
        THEN [status |-> 200, data |-> ToPublicUser(GetByID(id).user)]
        ELSE [status |-> 404, data |-> NoUser]

\* C9: a get-by-id whose cache lookup failed is answered from the store, no
\* response carries a cache error, and a detached cache set or delete,
\* failing or not, changes no response.
C9_CacheNeverFails ==
    [][/\ \A w \in Workers :
            (Completes(w) /\ req'[w].op = "get" /\ req'[w].cacheErr)
                => /\ req[w].pc = "get_store"
                   /\ req'[w].status = StoreAnswer(req'[w].id).status
                   /\ req'[w].data = StoreAnswer(req'[w].id).data
       /\ \A w \in Workers : Completes(w) => req'[w].err # ErrRedis
       /\ (\E t \in tasks : t \notin tasks') => req' = req]_vars

\* a get answered 200 from the store after its cache lookup failed, Redis
\* still being unreachable
C9_Witness ==
    /\ \E w \in DoneGets : req[w].cacheErr /\ req[w].via = "store" /\ req[w].status = 200
    /\ ~redisUp

C11_UpdateKeepsCredential ==
    [][\A w \in Workers :
          (req[w].pc = "update_write" /\ req'[w].pc = "done")
            => \A i \in Stored :
                   users'[i] # NoUser => users'[i].password_hash = users[i].password_hash]_vars

\* the answered page computations, lists and searches
Paged == {w \in Workers : /\ req[w].pc = "done" /\ req[w].status = 200
                          /\ req[w].op \in {"pages", "list", "search"}}

\* C12: total_pages is the ceiling of total / limit: it is the least number of
\* pages of that size holding total rows, 0 for no rows, and total / limit
\* when limit divides total.
C12_TotalPagesIsCeiling ==
    \A w \in Paged :
        LET d == req[w].data
        IN  /\ d.limit >= 1 /\ d.limit <= 100
            /\ d.total_pages * d.limit >= d.total
            /\ d.total_pages > 0 => (d.total_pages - 1) * d.limit < d.total
            /\ d.total = 0 => d.total_pages = 0
            /\ d.total % d.limit = 0 => d.total_pages * d.limit = d.total

\* 11 rows in pages of 10: the remainder adds a second page
C12_Witness ==
    \E w \in Paged :
        req[w].data.total = 11 /\ req[w].data.limit = 10 /\ req[w].data.total_pages = 2

\* the list and search requests whose query has reached the repository
AtRepository == {w \in Workers : req[w].pc \in {"list_rows", "search_rows"}}

Listed == {w \in Workers : /\ req[w].pc = "done" /\ req[w].status = 200
                           /\ req[w].op \in {"list", "search"}}

\* the page and page size a request carries to the repository or echoes
Paging(w) ==
    IF req[w].pc = "done" THEN [page |-> req[w].data.page, limit |-> I64(req[w].data.limit)]
    ELSE [page |-> req[w].data.q.page, limit |-> req[w].data.q.limit]

\* C13: the page and limit that reach the repository and are echoed satisfy
\* page >= 1 and 1 <= limit <= 100; a requested limit above 100 becomes 100,
\* one below 1 becomes 10, a page below 1 becomes 1, anything else is kept.
C13_PagingNormalized ==
    \A w \in AtRepository \cup Listed :
        LET asked == req[w].cmd
            used == Paging(w)
        IN  /\ GreaterThan(used.page, 0)
            /\ Fits(used.limit) /\ ToInt(used.limit) >= 1 /\ ToInt(used.limit) <= 100
            /\ GreaterThan(asked.limit, 100) => used.limit = I64(100)
            /\ LessThan(asked.limit, 1) => used.limit = I64(10)
            /\ LessThan(asked.page, 1) => used.page = I64(1)
            /\ ~LessThan(asked.page, 1) => used.page = asked.page
            /\ (~LessThan(asked.limit, 1) /\ ~GreaterThan(asked.limit, 100))
                  => used.limit = asked.limit

\* limit=500 was answered with limit 100
C13_Witness ==
    \E w \in Listed : req[w].cmd.limit = I64(500) /\ req[w].data.limit = 100

ListedBy(op) == {w \in Listed : req[w].op = op}

\* the identifiers of the rows of an answer go up, or go down
IdsAscend(rows) == \A i, j \in 1..Len(rows) : i < j => rows[i].id < rows[j].id
IdsDescend(rows) == \A i, j \in 1..Len(rows) : i < j => rows[i].id > rows[j].id

\* C14 as stated: a list whose sort field is not id, name, email, age or
\* created_at is ordered by id ascending, whatever order was requested.
C14_UnknownSortIsIdAscending ==
    \A w \in ListedBy("list") :
        req[w].cmd.sort \notin ValidSortFields => IdsAscend(req[w].data.users)

\* C14: a list whose sort field is not id, name, email, age or created_at is
\* ordered by id, descending when order=desc was requested with it and
\* ascending for every other order value.
C14_UnknownSortIsIdInRequestedOrder ==
    \A w \in ListedBy("list") :
        req[w].cmd.sort \notin ValidSortFields
            => IF req[w].cmd.order = "desc" THEN IdsDescend(req[w].data.users)
               ELSE IdsAscend(req[w].data.users)

\* sort=password&order=desc was answered with at least two rows
C14_Witness ==
    \E w \in ListedBy("list") :
        /\ req[w].cmd.sort = "password"
        /\ req[w].cmd.order = "desc"
        /\ Len(req[w].data.users) >= 2

\* sort=password alone was answered with at least two rows
C14_WitnessAscending ==
    \E w \in ListedBy("list") :
        /\ req[w].cmd.sort = "password"
        /\ req[w].cmd.order = "asc"
        /\ Len(req[w].data.users) >= 2

\* kw occurs in s
Contains(s, kw) == \E i \in 1..(Len(s) - Len(kw) + 1) : SubSeq(s, i, i + Len(kw) - 1) = kw

\* the row satisfies every predicate present in the query: a keyword, a
\* minimum age above 0, a maximum age above 0
Satisfies(q, u) ==
    /\ q.search # Empty => (Contains(u.name, q.search) \/ Contains(u.email, q.search))
    /\ (Fits(q.age_min) /\ ToInt(q.age_min) > 0) => u.age >= ToInt(q.age_min)
    /\ (Fits(q.age_max) /\ ToInt(q.age_max) > 0) => u.age <= ToInt(q.age_max)

\* C15: the total of a list counts exactly the stored users that satisfy all
\* predicates present (keyword, age_min > 0, age_max > 0, both bounds
\* inclusive), and every returned user satisfies them; an absent or zero
\* bound and an absent keyword exclude nobody.
C15_FilterIsConjunction ==
    [][\A w \in Workers :
          /\ (req'[w].pc = "list_rows" /\ req[w].pc # "list_rows")
                => req'[w].data.total =
                       Cardinality({i \in Stored : Satisfies(req'[w].cmd, users[i])})
          /\ (Completes(w) /\ req'[w].op = "list" /\ req'[w].status = 200)
                => \A k \in 1..Len(req'[w].data.users) :
                       LET row == req'[w].data.users[k]
                       IN  /\ Satisfies(req'[w].cmd, row)
                           /\ row.id \in Stored
                           /\ row = ToPublicUser(users[row.id])]_vars

\* age_min=25&age_max=30 returned the one user in that range out of several
C15_Witness ==
    \E w \in ListedBy("list") :
        /\ req[w].cmd.age_min = I64(25)
        /\ req[w].cmd.age_max = I64(30)
        /\ req[w].data.total = 1
        /\ Len(req[w].data.users) = 1
        /\ req[w].data.users[1].age = 30
        /\ \E i \in Stored : users[i].age < 25

\* C16: with the store answering, every list request is answered 200 whatever
\* page, limit, sort and order it carries, and an order other than asc and
\* desc is served in ascending order of the sort column.
C16_ListNeverFails ==
    \A w \in Done("list") :
        req[w].err # ErrDb
            => /\ req[w].status = 200
               /\ req[w].cmd.order \notin {"asc", "desc"}
                    => \A i, j \in 1..Len(req[w].data.users) :
                           i < j => ~KeyLess(SortField(req[w].cmd), req[w].data.users[j],
                                             req[w].data.users[i])

\* the messages of NewUser, User.Update and User.UpdatePassword for a
\* rejected field
ValidationErrors ==
    {"name cannot be empty", "email cannot be empty", "password cannot be empty",
     "password must be at least 8 characters", "age must be between 0 and 150",
     "new password cannot be empty", "new password must be at least 8 characters"}

\* C17: a create, update or change-password that the entity validator
\* rejects, or would reject for its name, email, password or age, is answered
\* 400: no response carries a validation message with another status, and no
\* body the validator refuses gets past with 500 or 2xx.
C17_ValidationIs400 ==
    /\ \A w \in Done("create") \cup Done("update") \cup Done("chpw") :
           req[w].err \in ValidationErrors => req[w].status = 400
    /\ \A w \in Done("create") :
           (~req[w].taken
              /\ NewUser(req[w].cmd.name, req[w].cmd.email, req[w].cmd.password,
                         req[w].cmd.age, 0).err # NoErr)
                => req[w].status = 400
    /\ \A w \in Done("update") :
           UserUpdate(NoUser, req[w].cmd.name, req[w].cmd.email, req[w].cmd.age, 0).err # NoErr
                => req[w].status = 400
    /\ \A w \in Done("chpw") :
           Len(req[w].cmd.new_password) < MinPasswordLen => req[w].status = 400

\* a create that passed binding was rejected by NewUser and answered 400
C17_Witness ==
    \E w \in Done("create") :
        /\ BindCreateUser(req[w].cmd)
        /\ req[w].err \in ValidationErrors
        /\ req[w].status = 400

\* C18: get, update, delete and change-password answer 404 only when the
\* store answers and holds no row for the identifier; a by-id lookup that
\* fails because the store does not answer is answered 500.
C18_NotFoundOnlyWhenAbsent ==
    [][\A w \in Workers :
          (Completes(w) /\ req'[w].op \in {"get", "update", "delete", "chpw"})
            => /\ req'[w].status = 404 => (dbUp /\ req'[w].id \notin Stored)
               /\ (req[w].pc = "get_store" /\ ~dbUp) => req'[w].status = 500]_vars

\* the users of a response payload: the user of a create, get or update
\* answer, the rows of a list or search answer
Views(r) ==
    IF r.pc # "done" \/ r.status \notin {200, 201} THEN {}
    ELSE IF r.op \in {"list", "search"}
        THEN {r.data.users[k] : k \in 1..Len(r.data.users)}
    ELSE IF r.op \in {"create", "get", "update"} THEN {r.data}
    ELSE {}

PublicFields == {"id", "name", "email", "age", "created_at", "updated_at"}

Credentials == {PwA, PwB, Hash(PwA), Hash(PwB)}

\* C19: every user in a create, get, list, search or update answer has the
\* public fields only and none of them holds a password or a hash; the view
\* of a stored user, read from the store or through a cache entry, is the same
\* whatever credential the user has.
C19_ViewsHideCredential ==
    /\ \A w \in Workers : \A v \in Views(req[w]) :
           /\ DOMAIN v = PublicFields
           /\ v.name \notin Credentials
           /\ v.email \notin Credentials
    /\ \A i \in Stored : \A h \in Credentials :
           LET u == users[i]
               t == [u EXCEPT !.password_hash = h]
           IN  /\ ToPublicUser(t) = ToPublicUser(u)
               /\ ToPublicUser(Unmarshal(Marshal(t))) = ToPublicUser(Unmarshal(Marshal(u)))

\* a read by id answered from a cache entry next to a list answer with rows
C19_Witness ==
    /\ req[2].pc = "done" /\ req[2].op = "get" /\ req[2].status = 200
    /\ req[2].via = "cache"
    /\ req[1].pc = "done" /\ req[1].op = "list" /\ req[1].status = 200
    /\ Len(req[1].data.users) >= 1
    /\ \E i \in Stored : users[i].password_hash = Hash(PwB)

\* worker w takes a step of a list or a search
ListStep(w) == req'[w] # req[w] /\ req'[w].op \in {"list", "search"}

\* C20: a step of a list or a search leaves the cache and the detached cache
\* tasks as they are and takes nothing from the cache, and the rows it answers
\* are the rows of the store at that moment; a cache entry is read, and a
\* cache write is issued, by a read by id only.
C20_ListBypassesCache ==
    [][/\ \A w \in Workers :
            ListStep(w) =>
                /\ cache' = cache
                /\ tasks' = tasks
                /\ req'[w].issued = {}
                /\ req'[w].via = "none"
                /\ (Completes(w) /\ req'[w].status = 200) =>
                       \A k \in 1..Len(req'[w].data.users) :
                           LET row == req'[w].data.users[k]
                           IN  row.id \in Stored /\ row = ToPublicUser(users[row.id])
       /\ \A t \in tasks' \ tasks : t.kind = "set" => t.by = "get"
       /\ \A w \in Workers :
            (req'[w] # req[w] /\ req'[w].via = "cache") => req'[w].op = "get"]_vars

\* a list answered the stored email of a user while the cache still held the
\* entry written before that user was updated
C20_Witness ==
    /\ req[1].pc = "done" /\ req[1].op = "list" /\ req[1].status = 200
    /\ Len(req[1].data.users) >= 1
    /\ req[1].data.users[1].id = 1
    /\ req[1].data.users[1].email = EmailY
    /\ cache[CacheKey(1)] # NoEntry
    /\ cache[CacheKey(1)].doc.email # EmailY

\* C21: an update, delete or change-password that completes while the store
\* holds no row for its identifier is answered NotFound and leaves the table
\* as it is, whether the row was absent at the lookup or was deleted between
\* the lookup and the write; a delete that reaches its DELETE succeeds
\* exactly when the row is still there, and the row is gone afterwards, so of
\* two deletes that both passed the lookup exactly one succeeds.
C21_AbsentRowIsNotFound ==
    [][\A w \in Workers :
          (Completes(w) /\ req'[w].op \in {"update", "delete", "chpw"}) =>
              /\ req'[w].id \notin Stored =>
                     /\ req'[w].status = 404
                     /\ req'[w].err = ErrUserNotFound
                     /\ users' = users
              /\ req[w].pc = "delete_exec" =>
                     /\ req'[w].status = 200 <=> req[w].id \in Stored
                     /\ users'[req[w].id] = NoUser]_vars

\* the only two requests were deletes of the stored user, both past the
\* lookup before either DELETE ran: one answered 200, the other 404
C21_Witness ==
    /\ rid = 2
    /\ \A w \in Workers : req[w].pc = "done" /\ req[w].op = "delete" /\ req[w].id = 1
    /\ {req[w].status : w \in Workers} = {200, 404}
    /\ users[1] = NoUser

\* an update whose row was deleted after its lookup was answered 404 and the
\* row stayed deleted
C21_WitnessUpdate ==
    /\ rid = 2
    /\ \E w \in Workers : req[w].pc = "done" /\ req[w].op = "update" /\ req[w].status = 404
    /\ \E w \in Workers : req[w].pc = "done" /\ req[w].op = "delete" /\ req[w].status = 200
    /\ users[1] = NoUser

AgeInRange(a) == a >= MinAge /\ a <= MaxAge

\* the ages around both ends of the range
EdgeAges == {MinAge - 1, MinAge, MaxAge, MaxAge + 1}

\* C22: every stored user, and every entity on its way to the table, has an
\* age within [0,150]; the entity validators on their own (the commands as the
\* command handlers receive them, without the HTTP binding) produce no user
\* whose age is outside the range.
C22_StoredAgeInRange ==
    /\ \A i \in Stored : AgeInRange(users[i].age)
    /\ \A w \in Workers :
           req[w].pc \in {"create_insert", "update_write", "chpw_write"}
               => AgeInRange(req[w].user.age)
    /\ \A i \in Stored : \A a \in EdgeAges :
           LET upd == UserUpdate(users[i], users[i].name, users[i].email, a, now)
               made == NewUser(NameB, EmailY, PwB, a, now)
           IN  /\ upd.err = NoErr => AgeInRange(upd.user.age)
               /\ made.err = NoErr => AgeInRange(made.user.age)

\* a user created with age 150 is stored and an update to age 151 was refused
C22_Witness ==
    /\ 1 \in Stored /\ users[1].age = MaxAge
    /\ req[1].pc = "done" /\ req[1].op = "update" /\ req[1].id = 1
    /\ req[1].cmd.age = MaxAge + 1
    /\ req[1].status = 400

\* C23: every stored user's name and email are non-empty after trimming
\* whitespace, and an update whose name or email is whitespace only is
\* refused and changes nothing.
C23_StoredNameNonBlank ==
    /\ \A i \in Stored :
           /\ TrimSpace(users[i].name) # Empty
           /\ TrimSpace(users[i].email) # Empty
    /\ \A w \in Done("update") :
           (TrimSpace(req[w].cmd.name) = Empty \/ TrimSpace(req[w].cmd.email) = Empty)
               => req[w].status # 200

\* C24: a create request that is well formed but for its age is accepted
\* when the age is exactly 0 or exactly 150 (answered 201, or 409 when the
\* email is taken) and is refused as a validation failure (400) when the age
\* is -1 or 151.
C24_AgeBoundsInclusive ==
    \A w \in Done("create") :
        /\ req[w].cmd \in {[FirstCmd EXCEPT !.age = a] : a \in {MinAge, MaxAge}}
               => req[w].status \in {201, 409}
        /\ req[w].cmd \in {[FirstCmd EXCEPT !.age = a] : a \in {MinAge - 1, MaxAge + 1}}
               => req[w].status = 400

\* C25: a change-password request whose new password equals its old password
\* is not answered with success, also when the old password is correct.
C25_SamePasswordRejected ==
    \A w \in Done("chpw") :
        req[w].cmd.new_password = req[w].cmd.old_password => req[w].status # 200

\* the identifiers of the rows of a list or search answer, in order
RowIds(w) == [k \in 1..Len(req[w].data.users) |-> req[w].data.users[k].id]

\* the ordered match sets the query of an answered request admits
OrderedMatches(w) ==
    IF req[w].op = "list"
        THEN LET q == NormalizeList(req[w].cmd)
             IN  Orderings(Matching(q), SortField(q), SortOrder(q))
    ELSE Orderings(SearchMatching(req[w].cmd), "id", "asc")

\* the page of an answer, cut out of an ordered match set
PageOf(w, o) ==
    Slice(o, I64(req[w].data.limit), Offset(req[w].data.page, I64(req[w].data.limit)))

SameQuery(w, v) ==
    /\ req[w].op = req[v].op
    /\ [req[w].cmd EXCEPT !.page = I64(1)] = [req[v].cmd EXCEPT !.page = I64(1)]

\* C26: with the store unchanged, the answers to one query at any two pages
\* are the slices offset .. offset+limit-1 of one and the same ordered match
\* set: a page has at most limit rows, different pages share no row, a page
\* beyond total_pages is empty, and total is the size of the match set.
C26_PagesAreSlicesOfOneOrder ==
    \A w, v \in Listed :
        SameQuery(w, v) =>
            /\ Len(RowIds(w)) <= req[w].data.limit
            /\ req[w].data.total = Len(CHOOSE o \in OrderedMatches(w) : TRUE)
            /\ \E o \in OrderedMatches(w) : RowIds(w) = PageOf(w, o) /\ RowIds(v) = PageOf(v, o)
            /\ req[w].data.page # req[v].data.page =>
                   \A i \in 1..Len(RowIds(w)), j \in 1..Len(RowIds(v)) :
                       RowIds(w)[i] # RowIds(v)[j]
            /\ GreaterThan(req[w].data.page, req[w].data.total_pages) => RowIds(w) = <<>>

\* no request is being served and no detached cache task is left to run
Quiescent == tasks = {} /\ \A w \in Workers : ~Busy(w)

\* C27: whenever no request is in flight and no detached cache task is
\* pending, a cache entry exists only for a stored identifier and agrees with
\* the stored row on name, email and age.
C27_QuiescentCacheAgrees ==
    Quiescent =>
        \A i \in Ids :
            cache[CacheKey(i)] # NoEntry =>
                /\ i \in Stored
                /\ Profile(cache[CacheKey(i)].doc) = Profile(users[i])

\* C27 amended: whenever no request is in flight and no detached cache task
\* is pending, a cache entry is a row of its own identifier that carries the
\* time-to-live; it is not a row of a deleted user whose invalidation ran with
\* no population pending, nor a profile that an update replaced and whose
\* invalidation ran with no population of it pending; and for an identifier
\* that no command has changed it agrees with the stored row on name, email
\* and age.
C27_QuiescentCacheAgreesOrExpires ==
    Quiescent =>
        \A i \in Ids :
            LET e == cache[CacheKey(i)]
            IN  e # NoEntry =>
                    /\ e.ttl > 0
                    /\ e.doc.id = i
                    /\ ~hist.purged[i]
                    /\ e.doc.updated_at \notin hist.clean[i]
                    /\ ~hist.mutated[i] =>
                           (i \in Stored /\ Profile(e.doc) = Profile(users[i]))

\* at rest after an update whose invalidation ran: the entry written by a
\* later read holds the updated profile
C27_Witness ==
    /\ Quiescent
    /\ hist.clean[1] # {}
    /\ cache[CacheKey(1)] # NoEntry
    /\ 1 \in Stored
    /\ Profile(cache[CacheKey(1)].doc) = Profile(users[1])

\* the detached cache write t lands in this step
Lands(t) == t \in tasks /\ t.kind = "set" /\ tasks' = tasks \ {t}

\* the entry one population of row u leaves behind
Populated(u) == [id |-> u.id, doc |-> Marshal(u), ttl |-> CacheTTL]

\* C28: a cache population that lands on a reachable cache leaves under the
\* user's key the entry a single population of that row leaves, whatever the
\* key held before, and touches no other key; so when several reads of one
\* identifier missed and read the same row, the entry after their writes is
\* the same in every order and the same as after one of them.
C28_PopulationIdempotent ==
    [][\A t \in tasks :
          (Lands(t) /\ redisUp) =>
              /\ cache'[CacheKey(t.id)] = Populated(t.user)
              /\ \A k \in Keys \ {CacheKey(t.id)} : cache'[k] = cache[k]
              /\ \A t2 \in tasks' :
                     (t2.kind = "set" /\ t2.id = t.id /\ t2.user = t.user)
                         => Populated(t2.user) = cache'[CacheKey(t.id)]]_vars

\* the only two requests were reads of user 1 that both missed and read the
\* same row, and both their cache writes have landed
C28_Witness ==
    /\ rid = 2
    /\ tasks = {}
    /\ \A w \in Workers :
           /\ req[w].pc = "done" /\ req[w].op = "get" /\ req[w].id = 1
           /\ req[w].via = "store" /\ req[w].status = 200
    /\ req[1].data = req[2].data
    /\ cache[CacheKey(1)] = Populated(users[1])

Mutations == {"create", "update", "delete", "chpw"}

\* worker w answers a command with success in this step
Succeeds(w) ==
    Completes(w) /\ req'[w].op \in Mutations /\ req'[w].status \in {200, 201}

\* C29: a create, update, delete or change-password that is answered with an
\* error changes neither the table nor the cache and starts no cache task;
\* the table changes only in the step in which a command succeeds, and a
\* cache delete is started only in such a step, for the identifier of that
\* command; a get-by-id that is not answered 200 starts no cache write.
C29_FailedCommandChangesNothing ==
    [][/\ \A w \in Workers :
            (Completes(w) /\ req'[w].op \in Mutations \cup {"get"}
                  /\ req'[w].status \notin {200, 201}) =>
                /\ users' = users
                /\ cache' = cache
                /\ tasks' = tasks
                /\ req'[w].issued \subseteq {<<"get", CacheKey(req'[w].id)>>}
       /\ users' # users => \E w \in Workers : Succeeds(w)
       /\ \A t \in tasks' \ tasks :
            t.kind = "del" => \E w \in Workers : Succeeds(w) /\ req'[w].id = t.id]_vars

\* an update whose UPDATE failed because the store went away after the lookup
\* was answered 500 while the cache kept the entry of the user
C29_Witness ==
    /\ req[1].pc = "done" /\ req[1].op = "update" /\ req[1].status = 500
    /\ req[1].err = ErrDb
    /\ tasks = {}
    /\ cache[CacheKey(1)] # NoEntry
    /\ users[1] = FirstUser

\* C30: the password a user was created with, exactly as it was sent, is not
\* refused as the old password of a change-password while nothing has changed
\* that user; and right after a successful change-password the new password
\* verifies against the stored credential and the old one, if different, does
\* not.
C30_CredentialRoundTrips ==
    \A w \in Done("chpw") :
        LET id == req[w].id
            cmd == req[w].cmd
        IN  id \in Stored =>
                /\ (~hist.mutated[id] /\ cmd.old_password = hist.created[id].password)
                       => req[w].status # 401
                /\ req[w].status = 200 =>
                       /\ CompareHashAndPassword(users[id].password_hash, cmd.new_password)
                       /\ cmd.old_password # cmd.new_password =>
                              ~CompareHashAndPassword(users[id].password_hash,
                                                      cmd.old_password)

====
